---- MODULE Spec2Model ----
(***************************************************************************)
(* Model of the hand-coded subgoal policy of textworld/agents/handcoded.py *)
(* (BasePolicy and its five task policies).                                *)
(*                                                                         *)
(* Text is modelled structurally: an observation is the sequence of its    *)
(* whitespace-delimited tokens (the result of obs.split()), and a token is *)
(* a sequence of symbols, e.g. "apple_3." is <<"apple","_","3",".">>.      *)
(* Mentions and classes are therefore sequences of symbols as well, and    *)
(* the empty string "" is <<>>.  Python dicts whose iteration order is     *)
(* observed (receptacles, visible_objects) are sequences of [k, v] records *)
(* in insertion order; obj_cls_to_receptacle_map is only ever looked up by *)
(* key, so it is a function.                                               *)
(***************************************************************************)
EXTENDS Integers, Sequences, FiniteSets, TLC

\* ------------------------------------------------------------------------
\* Bounds of the model
\* ------------------------------------------------------------------------

\* largest step budget (max_steps) an episode is constructed with
MaxBudget == 5

\* number of calls of act made beyond the budget
ExtraCalls == 2

\* ------------------------------------------------------------------------
\* Text helpers
\* ------------------------------------------------------------------------

special_char == "_"

StripChars == {".", ","}

WelcomeMarker == "Welcome"

EmptyStr == << >>

Word(w) == <<w>>

Tagged(c, n) == <<c, special_char, n>>

Last(xs) == xs[Len(xs)]

Front(xs) == SubSeq(xs, 1, Len(xs) - 1)

Range(xs) == {xs[i] : i \in 1..Len(xs)}

\* str.rstrip(".,"): drop every trailing symbol that is one of the strip characters
RECURSIVE rstrip(_)
rstrip(o) ==
    IF Len(o) > 0 /\ Last(o) \in StripChars THEN rstrip(Front(o)) ELSE o

\* special_char in o
ContainsSep(o) == \E i \in 1..Len(o) : o[i] = special_char

\* o.split(special_char)[0]: what precedes the first separator (all of o if there is none)
RECURSIVE SplitFirst(_)
SplitFirst(o) ==
    IF Len(o) = 0 \/ Head(o) = special_char THEN << >>
    ELSE <<Head(o)>> \o SplitFirst(Tail(o))

\* "Welcome" in obs
IsIntro(obs) == \E i \in 1..Len(obs) : \E j \in 1..Len(obs[i]) : obs[i][j] = WelcomeMarker

\* ------------------------------------------------------------------------
\* Insertion-ordered dicts
\* ------------------------------------------------------------------------

DictKeys(d) == [i \in 1..Len(d) |-> d[i].k]

DictHas(d, key) == \E i \in 1..Len(d) : d[i].k = key

DictGet(d, key) == d[CHOOSE i \in 1..Len(d) : d[i].k = key].v

\* d[key] = val: an existing key keeps its position, a new key is appended
DictSet(d, key, val) ==
    IF DictHas(d, key)
    THEN [i \in 1..Len(d) |-> IF d[i].k = key THEN [k |-> key, v |-> val] ELSE d[i]]
    ELSE Append(d, [k |-> key, v |-> val])

\* dict(pairs)
RECURSIVE DictFromPairs(_, _)
DictFromPairs(d, pairs) ==
    IF pairs = << >> THEN d
    ELSE DictFromPairs(DictSet(d, Head(pairs).k, Head(pairs).v), Tail(pairs))

\* ------------------------------------------------------------------------
\* Perception extractor
\* ------------------------------------------------------------------------

KeepTagged(o) == ContainsSep(o)

\* mutant of get_hashed_objects_in_str: trailing punctuation is kept
get_hashed_objects_unstripped(obs) == SelectSeq(obs, KeepTagged)

get_hashed_objects_in_str(obs) ==
    LET kept == SelectSeq(obs, KeepTagged)
    IN  [i \in 1..Len(kept) |-> rstrip(kept[i])]

get_objects_and_classes(obs) ==
    LET hashed_objects == get_hashed_objects_in_str(obs)
    IN  DictFromPairs(<< >>, [i \in 1..Len(hashed_objects) |->
            [k |-> hashed_objects[i], v |-> SplitFirst(hashed_objects[i])]])

get_list_of_objects_of_class(obj_cls, obj_dict) ==
    LET IsCls(e) == e.v = obj_cls
        sel == SelectSeq(obj_dict, IsCls)
    IN  [i \in 1..Len(sel) |-> sel[i].k]

\* ------------------------------------------------------------------------
\* Object and affordance priors (class attributes of BasePolicy, built from
\* the ALFRED constants; an excerpt that keeps one openable and one
\* non-openable receptacle class per role)
\* ------------------------------------------------------------------------

OBJECTS ==
    {Word("apple"), Word("mug"), Word("desklamp"), Word("fridge"), Word("countertop"),
     Word("sink"), Word("microwave"), Word("cabinet")}

RECEPTACLES ==
    {Word("fridge"), Word("countertop"), Word("sink"), Word("microwave"), Word("cabinet")}

OPENABLE_OBJECTS == {Word("fridge"), Word("microwave"), Word("cabinet")}

VAL_RECEPTACLE_OBJECTS ==
    [r \in RECEPTACLES |->
        CASE r = Word("fridge")     -> {Word("apple")}
          [] r = Word("countertop") -> {Word("apple"), Word("mug")}
          [] r = Word("sink")       -> {Word("apple")}
          [] r = Word("microwave")  -> {Word("apple")}
          [] r = Word("cabinet")    -> {Word("mug")}]

OBJECT_TO_VAL_RECEPTACLE ==
    [o \in OBJECTS |-> {r \in RECEPTACLES : o \in VAL_RECEPTACLE_OBJECTS[r]}]

\* ------------------------------------------------------------------------
\* Subgoal plans
\* ------------------------------------------------------------------------

Subgoal(a, p) == [action |-> a, param |-> p]

\* BasePolicy.__init__: the plan of the base class itself
BasePolicyPlan(task_params) == << Subgoal("look", EmptyStr) >>

\* mutant of PickAndPlaceSimplePolicy: the put names the object class
PickAndPlaceSimplePolicyPutObject(task_params) ==
    << Subgoal("find", task_params.object_target),
       Subgoal("take", task_params.object_target),
       Subgoal("find", task_params.parent_target),
       Subgoal("put",  task_params.object_target) >>

PickAndPlaceSimplePolicy(task_params) ==
    << Subgoal("find", task_params.object_target),
       Subgoal("take", task_params.object_target),
       Subgoal("find", task_params.parent_target),
       Subgoal("put",  task_params.parent_target) >>

LookAtObjInLightPolicy(task_params) ==
    << Subgoal("find", task_params.object_target),
       Subgoal("take", task_params.object_target),
       Subgoal("find", task_params.toggle_target),
       Subgoal("use",  task_params.toggle_target) >>

\* mutant of PickHeatThenPlaceInRecepPolicy: the subgoals extend the base plan instead of replacing it
PickHeatThenPlaceInRecepPolicyWithLook(task_params) ==
    << Subgoal("look", EmptyStr),
       Subgoal("find", task_params.object_target),
       Subgoal("take", task_params.object_target),
       Subgoal("goto", Word("microwave")),
       Subgoal("heat", task_params.object_target),
       Subgoal("find", task_params.parent_target),
       Subgoal("put",  task_params.parent_target) >>

PickHeatThenPlaceInRecepPolicy(task_params) ==
    << Subgoal("find", task_params.object_target),
       Subgoal("take", task_params.object_target),
       Subgoal("goto", Word("microwave")),
       Subgoal("heat", task_params.object_target),
       Subgoal("find", task_params.parent_target),
       Subgoal("put",  task_params.parent_target) >>

\* mutant of PickCoolThenPlaceInRecepPolicy: the appliance of the clean task is kept
PickCoolThenPlaceInRecepPolicyAtSink(task_params) ==
    << Subgoal("find", task_params.object_target),
       Subgoal("take", task_params.object_target),
       Subgoal("goto", Word("sink")),
       Subgoal("cool", task_params.object_target),
       Subgoal("find", task_params.parent_target),
       Subgoal("put",  task_params.parent_target) >>

PickCoolThenPlaceInRecepPolicy(task_params) ==
    << Subgoal("find", task_params.object_target),
       Subgoal("take", task_params.object_target),
       Subgoal("goto", Word("fridge")),
       Subgoal("cool", task_params.object_target),
       Subgoal("find", task_params.parent_target),
       Subgoal("put",  task_params.parent_target) >>

PickCleanThenPlaceInRecepPolicy(task_params) ==
    << Subgoal("find", task_params.object_target),
       Subgoal("take", task_params.object_target),
       Subgoal("goto", Word("sink")),
       Subgoal("clean", task_params.object_target),
       Subgoal("find", task_params.parent_target),
       Subgoal("put",  task_params.parent_target) >>

\* ------------------------------------------------------------------------
\* Task types and the lookup of their policy class.  A task type and a class
\* name are strings of characters, so that str.replace and str.title are
\* computed.
\* ------------------------------------------------------------------------

LowerCase ==
    <<"a", "b", "c", "d", "e", "f", "g", "h", "i", "j", "k", "l", "m", "n", "o", "p", "q", "r", "s", "t", "u", "v", "w", "x", "y", "z">>

UpperCase ==
    <<"A", "B", "C", "D", "E", "F", "G", "H", "I", "J", "K", "L", "M", "N", "O", "P", "Q", "R", "S", "T", "U", "V", "W", "X", "Y", "Z">>

IsCased(c) == \E i \in 1..26 : LowerCase[i] = c \/ UpperCase[i] = c

ToUpper(c) ==
    IF \E i \in 1..26 : LowerCase[i] = c
    THEN UpperCase[CHOOSE i \in 1..26 : LowerCase[i] = c] ELSE c

ToLower(c) ==
    IF \E i \in 1..26 : UpperCase[i] = c
    THEN LowerCase[CHOOSE i \in 1..26 : UpperCase[i] = c] ELSE c

\* str.replace(old, new) for single characters
ReplaceChar(str, old, new) == [i \in 1..Len(str) |-> IF str[i] = old THEN new ELSE str[i]]

\* str.replace(old, '') for a single character
RemoveChar(str, old) ==
    LET Keep(c) == c # old
    IN  SelectSeq(str, Keep)

\* str.title(): the first letter of every run of letters in upper case, the others in lower case
Title(str) ==
    [i \in 1..Len(str) |->
        IF i > 1 /\ IsCased(str[i - 1]) THEN ToLower(str[i]) ELSE ToUpper(str[i])]

PolicySuffix == <<"P", "o", "l", "i", "c", "y">>

\* task_type.replace("_", " ").title().replace(" ", '') + "Policy"
TaskClassStr(task_type) ==
    RemoveChar(Title(ReplaceChar(task_type, "_", " ")), " ") \o PolicySuffix

TagPickAndPlaceSimple ==
    <<"p", "i", "c", "k", "_", "a", "n", "d", "_", "p", "l", "a", "c", "e", "_", "s", "i", "m", "p", "l", "e">>

TagLookAtObjInLight ==
    <<"l", "o", "o", "k", "_", "a", "t", "_", "o", "b", "j", "_", "i", "n", "_", "l", "i", "g", "h", "t">>

TagPickHeatThenPlaceInRecep ==
    <<"p", "i", "c", "k", "_", "h", "e", "a", "t", "_", "t", "h", "e", "n", "_", "p", "l", "a", "c", "e", "_", "i", "n", "_", "r", "e", "c", "e", "p">>

TagPickCoolThenPlaceInRecep ==
    <<"p", "i", "c", "k", "_", "c", "o", "o", "l", "_", "t", "h", "e", "n", "_", "p", "l", "a", "c", "e", "_", "i", "n", "_", "r", "e", "c", "e", "p">>

TagPickCleanThenPlaceInRecep ==
    <<"p", "i", "c", "k", "_", "c", "l", "e", "a", "n", "_", "t", "h", "e", "n", "_", "p", "l", "a", "c", "e", "_", "i", "n", "_", "r", "e", "c", "e", "p">>

TagBase == <<"b", "a", "s", "e">>

\* a task type of the ALFRED data that has no policy class here
TagPickTwoObjAndPlace ==
    <<"p", "i", "c", "k", "_", "t", "w", "o", "_", "o", "b", "j", "_", "a", "n", "d", "_", "p", "l", "a", "c", "e">>

NamePickAndPlaceSimplePolicy ==
    <<"P", "i", "c", "k", "A", "n", "d", "P", "l", "a", "c", "e", "S", "i", "m", "p", "l", "e", "P", "o", "l", "i", "c", "y">>

NameLookAtObjInLightPolicy ==
    <<"L", "o", "o", "k", "A", "t", "O", "b", "j", "I", "n", "L", "i", "g", "h", "t", "P", "o", "l", "i", "c", "y">>

NamePickHeatThenPlaceInRecepPolicy ==
    <<"P", "i", "c", "k", "H", "e", "a", "t", "T", "h", "e", "n", "P", "l", "a", "c", "e", "I", "n", "R", "e", "c", "e", "p", "P", "o", "l", "i", "c", "y">>

NamePickCoolThenPlaceInRecepPolicy ==
    <<"P", "i", "c", "k", "C", "o", "o", "l", "T", "h", "e", "n", "P", "l", "a", "c", "e", "I", "n", "R", "e", "c", "e", "p", "P", "o", "l", "i", "c", "y">>

NamePickCleanThenPlaceInRecepPolicy ==
    <<"P", "i", "c", "k", "C", "l", "e", "a", "n", "T", "h", "e", "n", "P", "l", "a", "c", "e", "I", "n", "R", "e", "c", "e", "p", "P", "o", "l", "i", "c", "y">>

NameBasePolicy == <<"B", "a", "s", "e", "P", "o", "l", "i", "c", "y">>

\* globals() of the module (the names it imports and defines)
ModuleGlobals ==
    {<<"o", "s">>,
     <<"s", "y", "s">>,
     <<"j", "s", "o", "n">>,
     <<"s", "t", "r", "i", "n", "g">>,
     <<"r", "a", "n", "d", "o", "m">>,
     <<"A", "g", "e", "n", "t">>,
     <<"c", "o", "n", "s", "t", "a", "n", "t", "s">>,
     <<"H", "a", "n", "d", "C", "o", "d", "e", "d", "A", "g", "e", "n", "t", "T", "i", "m", "e", "o", "u", "t">>,
     <<"H", "a", "n", "d", "C", "o", "d", "e", "d", "A", "g", "e", "n", "t", "F", "a", "i", "l", "e", "d">>,
     <<"H", "a", "n", "d", "C", "o", "d", "e", "d", "A", "g", "e", "n", "t">>,
     NameBasePolicy, NamePickAndPlaceSimplePolicy, NameLookAtObjInLightPolicy,
     NamePickHeatThenPlaceInRecepPolicy, NamePickCoolThenPlaceInRecepPolicy, NamePickCleanThenPlaceInRecepPolicy}

CompiledTaskTypes ==
    {TagPickAndPlaceSimple, TagLookAtObjInLight, TagPickHeatThenPlaceInRecep,
     TagPickCoolThenPlaceInRecep, TagPickCleanThenPlaceInRecep}

\* get_task_policy raises Exception("Invalid Task Type: ...")
GetTaskPolicyRaises(task_param) == TaskClassStr(task_param.task_type) \notin ModuleGlobals

\* HandCodedAgent.get_task_policy: the name of the class it returns
get_task_policy(task_param) == TaskClassStr(task_param.task_type)

\* no policy was constructed
NoPolicy == << >>

\* the subgoals the policy class is constructed with
PolicySubgoals(policy_class, task_params) ==
    CASE policy_class = NamePickAndPlaceSimplePolicy -> PickAndPlaceSimplePolicy(task_params)
      [] policy_class = NameLookAtObjInLightPolicy -> LookAtObjInLightPolicy(task_params)
      [] policy_class = NamePickHeatThenPlaceInRecepPolicy -> PickHeatThenPlaceInRecepPolicy(task_params)
      [] policy_class = NamePickCoolThenPlaceInRecepPolicy -> PickCoolThenPlaceInRecepPolicy(task_params)
      [] policy_class = NamePickCleanThenPlaceInRecepPolicy -> PickCleanThenPlaceInRecepPolicy(task_params)
      [] policy_class = NameBasePolicy -> BasePolicyPlan(task_params)
      [] OTHER -> << >>

\* task types the episodes are set up with
TaskTypes == CompiledTaskTypes \cup {TagBase, TagPickTwoObjAndPlace}

\* target classes of the tasks
TargetClasses ==
    { [object_target |-> Word("apple"), parent_target |-> Word("fridge"), toggle_target |-> Word("desklamp")],
      [object_target |-> Word("mug"), parent_target |-> Word("countertop"), toggle_target |-> Word("desklamp")] }

\* task specifications the episodes are run on
TaskParams ==
    { [task_type |-> t, object_target |-> c.object_target, parent_target |-> c.parent_target,
       toggle_target |-> c.toggle_target] : t \in TaskTypes, c \in TargetClasses }

\* task_params of a policy that is constructed directly
NoTaskParams ==
    [task_type |-> EmptyStr, object_target |-> EmptyStr, parent_target |-> EmptyStr,
     toggle_target |-> EmptyStr]

\* class name of the further subclasses
NameCustomPolicy == <<"C", "u", "s", "t", "o", "m", "P", "o", "l", "i", "c", "y">>

\* plans of further BasePolicy subclasses, over the verbs no task policy uses
CustomPlans ==
    { << Subgoal("find", Word("apple")), Subgoal("take", Word("apple")) >>,
      << Subgoal("find", Word("fridge")), Subgoal("open", EmptyStr), Subgoal("find", Word("apple")),
         Subgoal("slice", Word("apple")), Subgoal("close", EmptyStr) >>,
      << Subgoal("find", Word("apple")), Subgoal("take", Word("apple")), Subgoal("take", Word("apple")),
         Subgoal("cool", Word("apple")) >> }

\* ------------------------------------------------------------------------
\* Observations fed to act
\* ------------------------------------------------------------------------

\* "Welcome. fridge_1 countertop_1 sink_1"
ObsIntro ==
    << <<"Welcome", ".">>, Tagged("fridge", "1"), Tagged("countertop", "1"), Tagged("sink", "1") >>

\* "Welcome back. cabinet_1 microwave_1, microwave_2 cabinet_2"
ObsIntro2 ==
    << Word("Welcome"), <<"back", ".">>, Tagged("cabinet", "1"), Tagged("microwave", "1") \o <<",">>,
       Tagged("microwave", "2"), Tagged("cabinet", "2") >>

\* "You see apple_3 on countertop_1."
ObsApple ==
    << Word("You"), Word("see"), Tagged("apple", "3"), Word("on"), Tagged("countertop", "1") \o <<".">> >>

\* "You see apple_3, apple_4 in fridge_1."
ObsApples ==
    << Word("You"), Word("see"), Tagged("apple", "3") \o <<",">>, Tagged("apple", "4"), Word("in"),
       Tagged("fridge", "1") \o <<".">> >>

\* "You see nothing."
ObsNothing == << Word("You"), Word("see"), <<"nothing", ".">> >>

Observations == {ObsIntro, ObsIntro2, ObsApple, ObsApples, ObsNothing}

\* ------------------------------------------------------------------------
\* Policy state
\* ------------------------------------------------------------------------

VARIABLES
    task_type,                  \* task type of the episode ("": the policy was constructed directly)
    task_params,                \* task_params of the episode
    policy_class,               \* name of the class of self.policy, NoPolicy if get_task_policy raised
    subgoals,                   \* the Plan
    max_steps,                  \* step budget
    receptacles,                \* receptacle mention -> class (insertion-ordered)
    visible_objects,            \* object mention -> class (insertion-ordered)
    obj_cls_to_receptacle_map,  \* class -> receptacle mention
    subgoal_idx,                \* 0-based cursor into subgoals
    curr_recep,
    checked_inside_curr_recep,
    receptacles_to_check,       \* search frontier, popped from the end
    inventory,
    action_backlog,             \* deferred commands, popped from the end
    steps,
    last,                       \* observation and outcome of the latest call of act
    calls,                      \* history: number of calls of act made so far
    unclosed,                   \* history: receptacles an "open" of find/take/put was emitted for, no "close" since
    opened_here,                \* history: receptacle opened by find/take/put that is still curr_recep, else ""
    gone                        \* history: the receptacles named by the go-tos of find since subgoal_idx last changed

mem_vars ==
    << subgoals, max_steps, receptacles, visible_objects, obj_cls_to_receptacle_map, subgoal_idx,
       curr_recep, checked_inside_curr_recep, receptacles_to_check, inventory, action_backlog, steps >>

\* the environment object (TextWorldEnv or PddlEnv)
VARIABLES
    env_class,                  \* class of the environment
    infos,                      \* the EnvInfos the environment was made with
    game_progression,           \* self._game_progression
    last_action,                \* self._last_action
    previous_winning_policy,    \* self._previous_winning_policy
    current_winning_policy,     \* self._current_winning_policy
    moves,                      \* self._moves
    prev_command,               \* self.prev_command (PddlEnv)
    state,                      \* self.state
    prev_state,                 \* self.prev_state
    env_trace                   \* history: the commands passed to step since the last reset

policy_vars == << task_type, task_params, policy_class, mem_vars, last, calls, unclosed, opened_here,
                 gone >>

env_vars ==
    << env_class, infos, game_progression, last_action, previous_winning_policy,
       current_winning_policy, moves, prev_command, state, prev_state, env_trace >>

vars == << policy_vars, env_vars >>

\* the fields of the policy object as one record
Mem ==
    [subgoals |-> subgoals, max_steps |-> max_steps, receptacles |-> receptacles,
     visible_objects |-> visible_objects, obj_cls_to_receptacle_map |-> obj_cls_to_receptacle_map,
     subgoal_idx |-> subgoal_idx, curr_recep |-> curr_recep,
     checked_inside_curr_recep |-> checked_inside_curr_recep,
     receptacles_to_check |-> receptacles_to_check, inventory |-> inventory,
     action_backlog |-> action_backlog, steps |-> steps]

\* ------------------------------------------------------------------------
\* Outcomes of one call of act
\* ------------------------------------------------------------------------

Cmd(verb, args) == [verb |-> verb, args |-> args]

NoCmd == Cmd("", << >>)

\* frontier and backlog as they are when the subgoal is re-derived after the find block
NoSnap == [reached |-> FALSE, receptacles_to_check |-> << >>, action_backlog |-> << >>]

SnapOf(s) ==
    [reached |-> TRUE, receptacles_to_check |-> s.receptacles_to_check,
     action_backlog |-> s.action_backlog]

\* act returns cmd
Return(s, cmd, branches, snap) ==
    [mem |-> s, kind |-> "command", cmd |-> cmd, branches |-> branches, snap |-> snap]

\* act raises an exception of the given kind ("Timeout": HandCodedAgentTimeout,
\* "Failed": HandCodedAgentFailed, "IndexError", "KeyError"), or falls off its end ("None")
Raise(s, kind, branches, snap) ==
    [mem |-> s, kind |-> kind, cmd |-> NoCmd, branches |-> branches, snap |-> snap]

\* ------------------------------------------------------------------------
\* BasePolicy helpers
\* ------------------------------------------------------------------------

\* self.subgoal_idx += 1
Advance(idx) == idx + 1

\* mutant of TimedOut: the budget test is off by one
TimedOutOffByOne(n, budget) == n >= budget

\* the timeout test of act
TimedOut(n, budget) == n > budget

\* mutant of get_list_of_receptacles_to_search_for_object_cls: the affordance priors are not consulted
get_list_of_receptacles_matching_cls(s, obj_cls) ==
    LET Holds(e) == e.v = obj_cls
    IN  DictKeys(SelectSeq(s.receptacles, Holds))

get_list_of_receptacles_to_search_for_object_cls(s, obj_cls) ==
    LET obj_found_in_receps == OBJECT_TO_VAL_RECEPTACLE[obj_cls]
        Holds(e) == e.v \in obj_found_in_receps
    IN  DictKeys(SelectSeq(s.receptacles, Holds))

get_list_of_receptacles_of_type(s, recep_cls) ==
    LET IsCls(e) == e.v = recep_cls
    IN  DictKeys(SelectSeq(s.receptacles, IsCls))

\* self.receptacles[recep] is evaluated and recep is not a key
OpenableRaises(s, recep) == recep # EmptyStr /\ ~DictHas(s.receptacles, recep)

is_receptacle_openable(s, recep) ==
    recep # EmptyStr /\ DictGet(s.receptacles, recep) \in OPENABLE_OBJECTS

\* mutant of Ingest: an introductory observation also restarts the plan
IngestRestarting(s, obs) ==
    IF IsIntro(obs)
    THEN [s EXCEPT !.receptacles = get_objects_and_classes(obs), !.subgoal_idx = 0]
    ELSE LET seen == get_objects_and_classes(obs)
             classes == {seen[i].v : i \in 1..Len(seen)}
             old == s.obj_cls_to_receptacle_map
         IN  [s EXCEPT !.visible_objects = seen,
                       !.obj_cls_to_receptacle_map =
                           [c \in DOMAIN old \cup classes |->
                               IF c \in classes THEN s.curr_recep ELSE old[c]]]

\* mutant of Ingest: a remembered location is not overwritten
IngestNoOverwrite(s, obs) ==
    IF IsIntro(obs)
    THEN [s EXCEPT !.receptacles = get_objects_and_classes(obs)]
    ELSE LET seen == get_objects_and_classes(obs)
             classes == {seen[i].v : i \in 1..Len(seen)}
             old == s.obj_cls_to_receptacle_map
         IN  [s EXCEPT !.visible_objects = seen,
                       !.obj_cls_to_receptacle_map =
                           [c \in DOMAIN old \cup classes |->
                               IF c \in DOMAIN old THEN old[c] ELSE s.curr_recep]]

\* observation ingestion
Ingest(s, obs) ==
    IF IsIntro(obs)
    THEN [s EXCEPT !.receptacles = get_objects_and_classes(obs)]
    ELSE LET seen == get_objects_and_classes(obs)
             classes == {seen[i].v : i \in 1..Len(seen)}
             old == s.obj_cls_to_receptacle_map
         IN  [s EXCEPT !.visible_objects = seen,
                       !.obj_cls_to_receptacle_map =
                           [c \in DOMAIN old \cup classes |->
                               IF c \in classes THEN s.curr_recep ELSE old[c]]]

\* mutant of FindDone: the backlog survives the completion of a find
FindDoneKeepBacklog(s) ==
    [s EXCEPT !.receptacles_to_check = << >>,
              !.subgoal_idx = Advance(s.subgoal_idx)]

\* find, done criteria
FindDone(s) ==
    [s EXCEPT !.receptacles_to_check = << >>,
              !.action_backlog = << >>,
              !.subgoal_idx = Advance(s.subgoal_idx)]

\* the heuristic choice of receptacles raises KeyError
FrontierRaises(s, sub_param) ==
    /\ sub_param \notin DOMAIN s.obj_cls_to_receptacle_map
    /\ Len(s.receptacles_to_check) = 0
    /\ sub_param \notin RECEPTACLES
    /\ sub_param \notin DOMAIN OBJECT_TO_VAL_RECEPTACLE

\* mutant of ResolveFrontier: the remembered location is not consulted
ResolveFrontierNoMemory(s, sub_param) ==
    IF Len(s.receptacles_to_check) = 0
    THEN LET heur == IF sub_param \in RECEPTACLES
                     THEN get_list_of_receptacles_of_type(s, sub_param)
                     ELSE get_list_of_receptacles_to_search_for_object_cls(s, sub_param)
         IN  IF Len(heur) = 0 THEN DictKeys(s.receptacles) ELSE heur
    ELSE s.receptacles_to_check

\* find, not done: the frontier after the resolution of where to look
ResolveFrontier(s, sub_param) ==
    IF sub_param \in DOMAIN s.obj_cls_to_receptacle_map
    THEN << s.obj_cls_to_receptacle_map[sub_param] >>
    ELSE IF Len(s.receptacles_to_check) = 0
    THEN LET heur == IF sub_param \in RECEPTACLES
                     THEN get_list_of_receptacles_of_type(s, sub_param)
                     ELSE get_list_of_receptacles_to_search_for_object_cls(s, sub_param)
         IN  IF Len(heur) = 0 THEN DictKeys(s.receptacles) ELSE heur
    ELSE s.receptacles_to_check

\* mutant of OpenCurrent: the close is not deferred
OpenCurrentNoClose(s) ==
    [s EXCEPT !.checked_inside_curr_recep = TRUE]

\* mutant of OpenCurrent: the receptacle is not marked as checked
OpenCurrentUnchecked(s) ==
    [s EXCEPT !.action_backlog = Append(s.action_backlog, Cmd("close", <<s.curr_recep>>))]

\* open the current receptacle and defer its close (find, take and put)
OpenCurrent(s) ==
    [s EXCEPT !.checked_inside_curr_recep = TRUE,
              !.action_backlog = Append(s.action_backlog, Cmd("close", <<s.curr_recep>>))]

\* find, go to next receptacle
GoToNext(s) ==
    [s EXCEPT !.receptacles_to_check = Front(s.receptacles_to_check),
              !.curr_recep = Last(s.receptacles_to_check)]

\* mutant of FindSearch: the next receptacle is gone to before the backlog is drained
FindSearchGoFirst(s, sub_param) ==
    IF FrontierRaises(s, sub_param) THEN {Raise(s, "KeyError", <<"find">>, NoSnap)}
    ELSE
    LET s1 == [s EXCEPT !.receptacles_to_check = ResolveFrontier(s, sub_param)]
    IN  IF OpenableRaises(s1, s1.curr_recep) THEN {Raise(s1, "KeyError", <<"find">>, NoSnap)}
        ELSE IF is_receptacle_openable(s1, s1.curr_recep) /\ ~s1.checked_inside_curr_recep
        THEN {Return(OpenCurrent(s1), Cmd("open", <<s1.curr_recep>>), <<"find", "open_first">>, NoSnap)}
        ELSE IF Len(s1.receptacles_to_check) > 0
        THEN LET s2 == GoToNext(s1)
             IN  IF OpenableRaises(s2, s2.curr_recep)
                 THEN {Raise(s2, "KeyError", <<"find", "goto_next">>, NoSnap)}
                 ELSE {Return([s2 EXCEPT !.checked_inside_curr_recep =
                                   ~is_receptacle_openable(s2, s2.curr_recep)],
                              Cmd("go to", <<s2.curr_recep>>), <<"find", "goto_next">>, NoSnap)}
        ELSE IF Len(s1.action_backlog) = 0
        THEN {Raise(s1, "IndexError", <<"find">>, NoSnap)}
        ELSE {Return([s1 EXCEPT !.action_backlog = Front(s1.action_backlog)],
                     Last(s1.action_backlog), <<"find", "drain">>, NoSnap)}

\* find, not done
FindSearch(s, sub_param) ==
    IF FrontierRaises(s, sub_param) THEN {Raise(s, "KeyError", <<"find">>, NoSnap)}
    ELSE
    LET s1 == [s EXCEPT !.receptacles_to_check = ResolveFrontier(s, sub_param)]
    IN  IF OpenableRaises(s1, s1.curr_recep) THEN {Raise(s1, "KeyError", <<"find">>, NoSnap)}
        ELSE IF is_receptacle_openable(s1, s1.curr_recep) /\ ~s1.checked_inside_curr_recep
        THEN {Return(OpenCurrent(s1), Cmd("open", <<s1.curr_recep>>), <<"find", "open_first">>, NoSnap)}
        ELSE IF Len(s1.action_backlog) = 0
        THEN IF Len(s1.receptacles_to_check) = 0
             THEN {Raise(s1, "IndexError", <<"find">>, NoSnap)}
             ELSE LET s2 == GoToNext(s1)
                  IN  IF OpenableRaises(s2, s2.curr_recep)
                      THEN {Raise(s2, "KeyError", <<"find", "goto_next">>, NoSnap)}
                      ELSE {Return([s2 EXCEPT !.checked_inside_curr_recep =
                                        ~is_receptacle_openable(s2, s2.curr_recep)],
                                   Cmd("go to", <<s2.curr_recep>>), <<"find", "goto_next">>, NoSnap)}
        ELSE {Return([s1 EXCEPT !.action_backlog = Front(s1.action_backlog)],
                     Last(s1.action_backlog), <<"find", "drain">>, NoSnap)}

\* mutant of GotoBranch: the last receptacle of the class is picked
GotoBranchLast(s, sub_param, br, snap) ==
    LET target_receps == get_list_of_receptacles_of_type(s, sub_param)
    IN  IF Len(target_receps) = 0 THEN {Raise(s, "IndexError", br, snap)}
        ELSE {Return([s EXCEPT !.curr_recep = Last(target_receps),
                               !.subgoal_idx = Advance(s.subgoal_idx)],
                     Cmd("go to", <<Last(target_receps)>>), br, snap)}

\* goto
GotoBranch(s, sub_param, br, snap) ==
    LET target_receps == get_list_of_receptacles_of_type(s, sub_param)
    IN  IF Len(target_receps) = 0 THEN {Raise(s, "IndexError", br, snap)}
        ELSE {Return([s EXCEPT !.curr_recep = target_receps[1],
                               !.subgoal_idx = Advance(s.subgoal_idx)],
                     Cmd("go to", <<target_receps[1]>>), br, snap)}

\* mutant of OpenFirst: the open counts as the subgoal
OpenFirstAdvancing(s, br, snap) ==
    Return([s EXCEPT !.checked_inside_curr_recep = TRUE,
                     !.action_backlog = Append(s.action_backlog, Cmd("close", <<s.curr_recep>>)),
                     !.subgoal_idx = Advance(s.subgoal_idx)],
           Cmd("open", <<s.curr_recep>>), Append(br, "open_first"), snap)

\* the open-first gate shared by take and put
OpenFirst(s, br, snap) ==
    Return(OpenCurrent(s), Cmd("open", <<s.curr_recep>>), Append(br, "open_first"), snap)

\* mutant of TakeBranch: the taken object is not recorded in the inventory
TakeBranchNoInventory(s, objs_of_interest, br, snap) ==
    IF OpenableRaises(s, s.curr_recep) THEN {Raise(s, "KeyError", br, snap)}
    ELSE IF is_receptacle_openable(s, s.curr_recep) /\ ~s.checked_inside_curr_recep
    THEN {OpenFirst(s, br, snap)}
    ELSE IF Len(objs_of_interest) = 0 THEN {Raise(s, "IndexError", br, snap)}
    ELSE {Return([s EXCEPT !.subgoal_idx = Advance(s.subgoal_idx)],
                 Cmd("take", <<obj, s.curr_recep>>), br, snap) : obj \in Range(objs_of_interest)}

\* take
TakeBranch(s, objs_of_interest, br, snap) ==
    IF OpenableRaises(s, s.curr_recep) THEN {Raise(s, "KeyError", br, snap)}
    ELSE IF is_receptacle_openable(s, s.curr_recep) /\ ~s.checked_inside_curr_recep
    THEN {OpenFirst(s, br, snap)}
    ELSE IF Len(objs_of_interest) = 0 THEN {Raise(s, "IndexError", br, snap)}
    ELSE {Return([s EXCEPT !.inventory = Append(s.inventory, obj),
                           !.subgoal_idx = Advance(s.subgoal_idx)],
                 Cmd("take", <<obj, s.curr_recep>>), br, snap) : obj \in Range(objs_of_interest)}

\* put
PutBranch(s, br, snap) ==
    IF OpenableRaises(s, s.curr_recep) THEN {Raise(s, "KeyError", br, snap)}
    ELSE IF is_receptacle_openable(s, s.curr_recep) /\ ~s.checked_inside_curr_recep
    THEN {OpenFirst(s, br, snap)}
    ELSE IF Len(s.inventory) = 0 THEN {Raise(s, "IndexError", br, snap)}
    ELSE {Return([s EXCEPT !.inventory = Front(s.inventory),
                           !.subgoal_idx = Advance(s.subgoal_idx)],
                 Cmd("put", <<Last(s.inventory), s.curr_recep>>), br, snap)}

\* open and close subgoals
OpenCloseBranch(s, verb, br, snap) ==
    {Return([s EXCEPT !.subgoal_idx = Advance(s.subgoal_idx)], Cmd(verb, <<s.curr_recep>>), br, snap)}

\* mutant of ApplianceBranch: the item is popped from the inventory
ApplianceBranchPopping(s, verb, br, snap) ==
    IF Len(s.inventory) = 0 THEN {Raise(s, "IndexError", br, snap)}
    ELSE {Return([s EXCEPT !.subgoal_idx = Advance(s.subgoal_idx),
                           !.inventory = Front(s.inventory)],
                 Cmd(verb, <<Last(s.inventory), s.curr_recep>>), br, snap)}

\* heat, cool and clean
ApplianceBranch(s, verb, br, snap) ==
    IF Len(s.inventory) = 0 THEN {Raise(s, "IndexError", br, snap)}
    ELSE {Return([s EXCEPT !.subgoal_idx = Advance(s.subgoal_idx)],
                 Cmd(verb, <<s.inventory[1], s.curr_recep>>), br, snap)}

\* slice
SliceBranch(s, objs_of_interest, br, snap) ==
    IF Len(objs_of_interest) = 0 \/ Len(s.inventory) = 0 THEN {Raise(s, "IndexError", br, snap)}
    ELSE {Return([s EXCEPT !.subgoal_idx = Advance(s.subgoal_idx)],
                 Cmd("slice", <<obj, s.inventory[1]>>), br, snap) : obj \in Range(objs_of_interest)}

\* use
UseBranch(s, objs_of_interest, br, snap) ==
    IF Len(objs_of_interest) = 0 THEN {Raise(s, "IndexError", br, snap)}
    ELSE {Return([s EXCEPT !.subgoal_idx = Advance(s.subgoal_idx)],
                 Cmd("use", <<obj>>), br, snap) : obj \in Range(objs_of_interest)}

\* the blocks of act after the find block: the subgoal is re-derived and at most one of them runs
AfterFind(s, done) ==
    IF s.subgoal_idx >= Len(s.subgoals) THEN {Raise(s, "IndexError", done, SnapOf(s))}
    ELSE
    LET subgoal == s.subgoals[s.subgoal_idx + 1]
        sub_action == subgoal.action
        sub_param == subgoal.param
        objs_of_interest == get_list_of_objects_of_class(sub_param, s.visible_objects)
        br == Append(done, sub_action)
        snap == SnapOf(s)
    IN  CASE sub_action = "goto" -> GotoBranch(s, sub_param, br, snap)
          [] sub_action = "take" -> TakeBranch(s, objs_of_interest, br, snap)
          [] sub_action = "put" -> PutBranch(s, br, snap)
          [] sub_action \in {"open", "close"} -> OpenCloseBranch(s, sub_action, br, snap)
          [] sub_action \in {"heat", "cool", "clean"} -> ApplianceBranch(s, sub_action, br, snap)
          [] sub_action = "slice" -> SliceBranch(s, objs_of_interest, br, snap)
          [] sub_action = "use" -> UseBranch(s, objs_of_interest, br, snap)
          [] OTHER -> {Raise(s, "None", br, snap)}

\* the find block and what follows it
Dispatch(s) ==
    LET subgoal == s.subgoals[s.subgoal_idx + 1]
        objs_of_interest == get_list_of_objects_of_class(subgoal.param, s.visible_objects)
    IN  IF subgoal.action = "find"
        THEN IF Len(objs_of_interest) > 0
             THEN AfterFind(FindDone(s), <<"find_done">>)
             ELSE FindSearch(s, subgoal.param)
        ELSE AfterFind(s, << >>)

\* mutant of Exhausted: the backlog is cleared, not drained, when the plan is exhausted
ExhaustedClearing(s) ==
    {Raise([s EXCEPT !.action_backlog = << >>], "Failed", <<"exhausted">>, NoSnap)}

\* mutant of Exhausted: the last backlog entry is returned but not removed
ExhaustedPeeking(s) ==
    IF Len(s.action_backlog) > 0
    THEN {Return(s, Last(s.action_backlog), <<"exhausted", "drain">>, NoSnap)}
    ELSE {Raise(s, "Failed", <<"exhausted">>, NoSnap)}

\* finished all subgoals: drain the backlog, then fail
Exhausted(s) ==
    IF Len(s.action_backlog) > 0
    THEN {Return([s EXCEPT !.action_backlog = Front(s.action_backlog)],
                 Last(s.action_backlog), <<"exhausted", "drain">>, NoSnap)}
    ELSE {Raise(s, "Failed", <<"exhausted">>, NoSnap)}

\* mutant of act: the exhausted plan is looked at before the budget
actExhaustedFirst(s, obs) ==
    LET s1 == [s EXCEPT !.steps = s.steps + 1]
    IN  IF s1.subgoal_idx >= Len(s1.subgoals) THEN Exhausted(s1)
        ELSE IF TimedOut(s1.steps, s1.max_steps) THEN {Raise(s1, "Timeout", << >>, NoSnap)}
        ELSE Dispatch(Ingest(s1, obs))

\* BasePolicy.act: the set of outcomes of one call on observation obs
act(s, obs) ==
    LET s1 == [s EXCEPT !.steps = s.steps + 1]
    IN  IF TimedOut(s1.steps, s1.max_steps) THEN {Raise(s1, "Timeout", << >>, NoSnap)}
        ELSE IF s1.subgoal_idx >= Len(s1.subgoals) THEN Exhausted(s1)
        ELSE Dispatch(Ingest(s1, obs))

\* ------------------------------------------------------------------------
\* The game behind an environment
\* ------------------------------------------------------------------------

\* length of the walkthrough of the game
WalkLen == 2

\* number of step calls followed after a reset
MaxEnvSteps == 3

Blank == " "

CmdEast == << "go", Blank, "east" >>

CmdWest == << "go", Blank, "west" >>

CmdLook == << "look" >>

\* game.main_quest.commands: the walkthrough
Walkthrough == [i \in 1..WalkLen |-> CmdEast]

\* self._game_progression before reset
NoProgression == [pos |-> -1]

\* GameProgression(game): at the start of the walkthrough
NewProgression == [pos |-> 0]

\* a winning policy that is not tracked (None)
NonePolicy == [known |-> FALSE, actions |-> << >>]

\* GameProgression.valid_actions
valid_actions(gp) ==
    (IF gp.pos < WalkLen THEN << "go/east" >> ELSE << >>)
        \o (IF gp.pos > 0 THEN << "go/west" >> ELSE << >>)
        \o << "look" >>

\* the state GameProgression.update leaves
update(gp, action) ==
    [pos |-> CASE action = "go/east" -> gp.pos + 1
               [] action = "go/west" -> gp.pos - 1
               [] OTHER -> gp.pos]

\* the effects GameProgression.update returns
update_effects(gp, action) ==
    IF update(gp, action) = gp THEN << >> ELSE << [at |-> update(gp, action).pos] >>

\* GameProgression.winning_policy
winning_policy(gp, track_quests) ==
    IF track_quests
    THEN [known |-> TRUE, actions |-> [i \in 1..(WalkLen - gp.pos) |-> "go/east"]]
    ELSE NonePolicy

\* State.check_goal
check_goal(gp) == gp.pos = WalkLen

\* the command an action is written as
format_command(action) ==
    CASE action = "go/east" -> CmdEast
      [] action = "go/west" -> CmdWest
      [] OTHER -> CmdLook

gen_commands_from_actions(actions) == [i \in 1..Len(actions) |-> format_command(actions[i])]

\* the text the grammar derives for an action
derive_feedback(action) == << "You", Blank >> \o format_command(action) \o << "." >>

\* the text the grammar derives for "#intro#"
derive_intro == << "Welcome" >>

\* ------------------------------------------------------------------------
\* Environments: reset and step
\* ------------------------------------------------------------------------

EnvClasses == {"TextWorldEnv", "PddlEnv"}

TheEndMarker == << "***", Blank, "The", Blank, "End", Blank, "***" >>

YouLostMarker == << "***", Blank, "You", Blank, "lost", "!", Blank, "***" >>

NothingHappens == << "Nothing", Blank, "happens", "." >>

\* sub in text
Contains(text, sub) ==
    \E i \in 0..(Len(text) - Len(sub)) : SubSeq(text, i + 1, i + Len(sub)) = sub

RECURSIVE lstrip(_)
lstrip(str) == IF str # << >> /\ str[1] = Blank THEN lstrip(SubSeq(str, 2, Len(str))) ELSE str

RECURSIVE rstrip_blank(_)
rstrip_blank(str) ==
    IF str # << >> /\ str[Len(str)] = Blank THEN rstrip_blank(SubSeq(str, 1, Len(str) - 1)) ELSE str

\* str.strip()
strip(str) == rstrip_blank(lstrip(str))

\* list.index, 0 for ValueError
index(list, x) ==
    IF \E i \in 1..Len(list) : list[i] = x
    THEN CHOOSE i \in 1..Len(list) : list[i] = x /\ \A j \in 1..(i - 1) : list[j] # x
    ELSE 0

\* the score slot of a game state: unset, an int, or the GameProgression object
NoScore == [type |-> "unset", val |-> 0]

IntScore(n) == [type |-> "int", val |-> n]

ObjectScore == [type |-> "GameProgression", val |-> 0]

\* GameState(): nothing set
EmptyGameState ==
    [exists |-> TRUE, last_command |-> EmptyStr, feedback |-> EmptyStr, effects |-> << >>,
     won |-> FALSE, lost |-> FALSE, winning_policy |-> NonePolicy, intermediate_reward |-> 0,
     last_action |-> "None", valid_commands |-> << >>, admissible_commands |-> {},
     has_score |-> FALSE, score |-> NoScore, done |-> FALSE]

\* no game state (None)
NoGameState == [EmptyGameState EXCEPT !.exists = FALSE]

Sign(n) == IF n > 0 THEN 1 ELSE IF n < 0 THEN -1 ELSE 0

\* track_quests of reset
TrackQuests(inf) == inf.intermediate_reward \/ inf.policy_commands

\* _gather_infos of either class, on the state st being filled
gather_infos(cls, inf, st, gp, lastact, prevwp, curwp) ==
    LET won == IF cls = "TextWorldEnv" THEN Contains(st.feedback, TheEndMarker) ELSE check_goal(gp)
        lost == IF cls = "TextWorldEnv" THEN Contains(st.feedback, YouLostMarker) ELSE FALSE
        reward == IF won THEN 1
                  ELSE IF lost THEN -1
                  ELSE IF ~prevwp.known THEN 0
                  ELSE Sign(Len(prevwp.actions) - Len(curwp.actions))
        commands == gen_commands_from_actions(valid_actions(gp))
    IN  [st EXCEPT !.won = won,
                   !.lost = lost,
                   !.winning_policy = curwp,
                   !.intermediate_reward = IF inf.intermediate_reward THEN reward ELSE 0,
                   !.last_action = lastact,
                   !.valid_commands = commands,
                   !.admissible_commands = Range(commands)]

\* the environment after construction and load
EnvConstructed(cls, inf) ==
    /\ env_class = cls
    /\ infos = inf
    /\ game_progression = NoProgression
    /\ last_action = "None"
    /\ previous_winning_policy = NonePolicy
    /\ current_winning_policy = NonePolicy
    /\ moves = 0
    /\ prev_command = EmptyStr
    /\ state = NoGameState
    /\ prev_state = NoGameState
    /\ env_trace = << >>

\* reset
EnvReset ==
    LET wp == winning_policy(NewProgression, TrackQuests(infos))
        st == [EmptyGameState EXCEPT
                  !.feedback = IF env_class = "TextWorldEnv" THEN EmptyStr ELSE derive_intro]
    IN  /\ prev_state' = NoGameState
        /\ game_progression' = NewProgression
        /\ last_action' = "None"
        /\ previous_winning_policy' = NonePolicy
        /\ current_winning_policy' = wp
        /\ moves' = 0
        /\ prev_command' = EmptyStr
        /\ state' = gather_infos(env_class, infos, st, NewProgression, "None", NonePolicy, wp)
        /\ env_trace' = << >>
        /\ UNCHANGED << env_class, infos, policy_vars >>

\* mutant of EnvStep: every step counts as a move
EnvStepCountingAll(given) ==
    /\ state.exists
    /\ Len(env_trace) < MaxEnvSteps
    /\ LET command == strip(given)
           idx == index(state.valid_commands, command)
           found == idx > 0
           action == IF found THEN valid_actions(game_progression)[idx] ELSE "None"
           gp == IF found THEN update(game_progression, action) ELSE game_progression
           wp == IF found THEN winning_policy(gp, TrackQuests(infos)) ELSE current_winning_policy
           feedback == IF env_class = "TextWorldEnv" THEN EmptyStr
                       ELSE IF found THEN derive_feedback(action)
                       ELSE NothingHappens
           effects == IF env_class = "PddlEnv" /\ found
                      THEN update_effects(game_progression, action) ELSE << >>
           st == gather_infos(env_class, infos,
                              [EmptyGameState EXCEPT !.last_command = command,
                                                     !.feedback = feedback,
                                                     !.effects = effects],
                              gp, action, current_winning_policy, wp)
       IN  /\ prev_state' = state
           /\ prev_command' = IF env_class = "PddlEnv" THEN command ELSE prev_command
           /\ previous_winning_policy' = current_winning_policy
           /\ last_action' = action
           /\ game_progression' = gp
           /\ current_winning_policy' = wp
           /\ moves' = moves + 1
           /\ state' = [st EXCEPT !.has_score = TRUE,
                                  !.score = IF env_class = "TextWorldEnv" THEN ObjectScore
                                            ELSE IntScore(IF st.won THEN 1 ELSE 0),
                                  !.done = st.won \/ st.lost]
           /\ env_trace' = Append(env_trace, given)
    /\ UNCHANGED << env_class, infos, policy_vars >>

\* step(command)
EnvStep(given) ==
    /\ state.exists
    /\ Len(env_trace) < MaxEnvSteps
    /\ LET command == strip(given)
           idx == index(state.valid_commands, command)
           found == idx > 0
           action == IF found THEN valid_actions(game_progression)[idx] ELSE "None"
           gp == IF found THEN update(game_progression, action) ELSE game_progression
           wp == IF found THEN winning_policy(gp, TrackQuests(infos)) ELSE current_winning_policy
           feedback == IF env_class = "TextWorldEnv" THEN EmptyStr
                       ELSE IF found THEN derive_feedback(action)
                       ELSE NothingHappens
           effects == IF env_class = "PddlEnv" /\ found
                      THEN update_effects(game_progression, action) ELSE << >>
           st == gather_infos(env_class, infos,
                              [EmptyGameState EXCEPT !.last_command = command,
                                                     !.feedback = feedback,
                                                     !.effects = effects],
                              gp, action, current_winning_policy, wp)
       IN  /\ prev_state' = state
           /\ prev_command' = IF env_class = "PddlEnv" THEN command ELSE prev_command
           /\ previous_winning_policy' = current_winning_policy
           /\ last_action' = action
           /\ game_progression' = gp
           /\ current_winning_policy' = wp
           /\ moves' = IF found THEN moves + 1 ELSE moves
           /\ state' = [st EXCEPT !.has_score = TRUE,
                                  !.score = IF env_class = "TextWorldEnv" THEN ObjectScore
                                            ELSE IntScore(IF st.won THEN 1 ELSE 0),
                                  !.done = st.won \/ st.lost]
           /\ env_trace' = Append(env_trace, given)
    /\ UNCHANGED << env_class, infos, policy_vars >>

\* the commands the environment is stepped with
EnvCommands ==
    { CmdEast, << Blank >> \o CmdEast \o << Blank >>, CmdWest, CmdLook, << "xyzzy" >> }

EnvInfosSet == { [intermediate_reward |-> r, policy_commands |-> FALSE] : r \in BOOLEAN }

\* ------------------------------------------------------------------------
\* Specification
\* ------------------------------------------------------------------------

NoObs == << >>

InitMem(plan, budget) ==
    /\ subgoals = plan
    /\ max_steps = budget
    /\ receptacles = << >>
    /\ visible_objects = << >>
    /\ obj_cls_to_receptacle_map = [c \in {} |-> EmptyStr]
    /\ subgoal_idx = 0
    /\ curr_recep = EmptyStr
    /\ checked_inside_curr_recep = FALSE
    /\ receptacles_to_check = << >>
    /\ inventory = << >>
    /\ action_backlog = << >>
    /\ steps = 0

Init ==
    /\ \E budget \in 0..MaxBudget :
          \/ \E tp \in TaskParams :
                /\ task_type = tp.task_type
                /\ task_params = tp
                /\ policy_class = IF GetTaskPolicyRaises(tp) THEN NoPolicy ELSE get_task_policy(tp)
                /\ InitMem(IF GetTaskPolicyRaises(tp) THEN << >>
                           ELSE PolicySubgoals(get_task_policy(tp), tp), budget)
          \/ \E plan \in CustomPlans :
                /\ task_type = EmptyStr
                /\ task_params = NoTaskParams
                /\ policy_class = NameCustomPolicy
                /\ InitMem(plan, budget)
    /\ last = [obs |-> NoObs, kind |-> "none", cmd |-> NoCmd, branches |-> << >>, snap |-> NoSnap]
    /\ calls = 0
    /\ unclosed = {}
    /\ opened_here = EmptyStr
    /\ gone = << >>
    /\ EnvConstructed("PddlEnv", [intermediate_reward |-> FALSE, policy_commands |-> FALSE])

\* an "open" emitted by the open-first gate of find, take or put
IsOpportunisticOpen(r) == r.kind = "command" /\ r.cmd.verb = "open" /\ Last(r.branches) = "open_first"

\* one call of policy.act by the agent adapter
Act ==
    /\ policy_class # NoPolicy
    /\ calls < max_steps + ExtraCalls
    /\ \E obs \in Observations : \E r \in act(Mem, obs) :
          /\ subgoals' = r.mem.subgoals
          /\ max_steps' = r.mem.max_steps
          /\ receptacles' = r.mem.receptacles
          /\ visible_objects' = r.mem.visible_objects
          /\ obj_cls_to_receptacle_map' = r.mem.obj_cls_to_receptacle_map
          /\ subgoal_idx' = r.mem.subgoal_idx
          /\ curr_recep' = r.mem.curr_recep
          /\ checked_inside_curr_recep' = r.mem.checked_inside_curr_recep
          /\ receptacles_to_check' = r.mem.receptacles_to_check
          /\ inventory' = r.mem.inventory
          /\ action_backlog' = r.mem.action_backlog
          /\ steps' = r.mem.steps
          /\ last' = [obs |-> obs, kind |-> r.kind, cmd |-> r.cmd, branches |-> r.branches,
                      snap |-> r.snap]
          /\ calls' = calls + 1
          /\ unclosed' = IF IsOpportunisticOpen(r) THEN unclosed \cup {r.cmd.args[1]}
                         ELSE IF r.kind = "command" /\ r.cmd.verb = "close"
                         THEN unclosed \ {r.cmd.args[1]}
                         ELSE unclosed
          /\ opened_here' = IF IsOpportunisticOpen(r) THEN r.cmd.args[1]
                            ELSE IF r.mem.curr_recep # opened_here THEN EmptyStr
                            ELSE opened_here
          /\ gone' = LET base == IF r.mem.subgoal_idx # subgoal_idx THEN << >> ELSE gone
                     IN  IF r.kind = "command" /\ Last(r.branches) = "goto_next"
                         THEN Append(base, r.cmd.args[1])
                         ELSE base
    /\ UNCHANGED << task_type, task_params, policy_class, env_vars >>

Next == Act

Spec == Init /\ [][Next]_vars

\* an environment driven through reset and step, no policy attached
InitEnv ==
    /\ \E cls \in EnvClasses : \E inf \in EnvInfosSet : EnvConstructed(cls, inf)
    /\ task_type = EmptyStr
    /\ task_params = NoTaskParams
    /\ policy_class = NoPolicy
    /\ InitMem(<< >>, 0)
    /\ last = [obs |-> NoObs, kind |-> "none", cmd |-> NoCmd, branches |-> << >>, snap |-> NoSnap]
    /\ calls = 0
    /\ unclosed = {}
    /\ opened_here = EmptyStr
    /\ gone = << >>

NextEnv ==
    \/ EnvReset
    \/ \E given \in EnvCommands : EnvStep(given)

SpecEnv == InitEnv /\ [][NextEnv]_vars

\* ------------------------------------------------------------------------
\* Vocabulary of the properties
\* ------------------------------------------------------------------------

\* the call about to be made is within the budget and finds the plan not exhausted
ReachesIngestion == calls < max_steps /\ subgoal_idx < Len(subgoals)

\* tok with n symbols kept is tok without its trailing punctuation
StrippedAt(tok, n) ==
    /\ \A j \in (n + 1)..Len(tok) : tok[j] \in StripChars
    /\ (n = 0 \/ tok[n] \notin StripChars)

\* the mentions an observation shows: its tokens that carry the separator, less trailing punctuation
MentionsIn(obs) ==
    UNION { {SubSeq(obs[i], 1, n) : n \in {k \in 0..Len(obs[i]) : StrippedAt(obs[i], k)}} :
            i \in {j \in 1..Len(obs) : special_char \in Range(obs[j])} }

\* c is what precedes the first separator of mention m
ClassOf(m, c) ==
    \E n \in 1..Len(m) :
        /\ m[n] = special_char
        /\ \A j \in 1..(n - 1) : m[j] # special_char
        /\ c = SubSeq(m, 1, n - 1)

DictKeySet(d) == {d[i].k : i \in 1..Len(d)}

Apple3 == Tagged("apple", "3")

Countertop1 == Tagged("countertop", "1")

IntroCensus ==
    << [k |-> Tagged("fridge", "1"), v |-> Word("fridge")],
       [k |-> Countertop1, v |-> Word("countertop")],
       [k |-> Tagged("sink", "1"), v |-> Word("sink")] >>

\* ------------------------------------------------------------------------
\* C1
\* ------------------------------------------------------------------------

\* C1: a call of act fails with Timeout exactly when it is a call beyond the
\* budget: the (max_steps+1)-th call and every later one time out, none of the
\* first max_steps calls does, whatever the earlier calls returned or raised.
C1_TimeoutExactlyBeyondBudget ==
    calls >= 1 => ((last.kind = "Timeout") <=> (calls > max_steps))

C1_Witness ==
    /\ max_steps >= 2
    /\ calls = max_steps + 1
    /\ last.kind = "Timeout"
    /\ subgoal_idx >= 1

\* ------------------------------------------------------------------------
\* C2
\* ------------------------------------------------------------------------

\* C2: subgoal_idx never decreases from one call of act to the next, whether
\* the call returns a command or fails.
C2_SubgoalIdxMonotone == [][subgoal_idx' >= subgoal_idx]_vars

C2_Witness ==
    /\ subgoal_idx >= 3
    /\ last.kind \in {"IndexError", "Failed"}

\* ------------------------------------------------------------------------
\* C3
\* ------------------------------------------------------------------------

\* C3 as claimed: every receptacle opened by find, take or put has been closed
\* again by the time the episode ends with PlanExhausted, and
\* checked_inside_curr_recep is true for as long as the opened receptacle is
\* still the current one.
C3_OpenIsAlwaysClosed ==
    /\ last.kind = "Failed" => unclosed = {}
    /\ opened_here # EmptyStr => checked_inside_curr_recep

\* C3 as amended: an "open R" of find, take or put is for the current
\* receptacle, sets checked_inside_curr_recep and leaves "close R" as the last
\* entry of the backlog; the pending entries stay in the backlog until a later
\* call returns the last of them or a completing find discards them; and
\* checked_inside_curr_recep stays true until find next pops a receptacle for
\* a "go to".
C3_OpenDefersClose ==
    [][ /\ IsOpportunisticOpen(last') =>
              /\ last'.cmd.args = <<curr_recep>>
              /\ curr_recep' = curr_recep
              /\ checked_inside_curr_recep'
              /\ action_backlog' = Append(action_backlog, Cmd("close", <<curr_recep>>))
        /\ action_backlog # << >> =>
              \/ /\ Len(action_backlog') >= Len(action_backlog)
                 /\ SubSeq(action_backlog', 1, Len(action_backlog)) = action_backlog
              \/ /\ last'.kind = "command"
                 /\ last'.cmd = Last(action_backlog)
                 /\ action_backlog' = Front(action_backlog)
              \/ "find_done" \in Range(last'.branches)
        /\ (checked_inside_curr_recep /\ ~checked_inside_curr_recep') =>
              /\ last'.kind = "command"
              /\ last'.cmd = Cmd("go to", <<curr_recep'>>)
              /\ subgoal_idx' = subgoal_idx
              /\ subgoals[subgoal_idx + 1].action = "find"
      ]_vars

C3_Witness ==
    /\ last.kind = "command"
    /\ last.cmd = Cmd("close", <<curr_recep>>)
    /\ last.branches = <<"find", "drain">>
    /\ opened_here = curr_recep
    /\ checked_inside_curr_recep

\* ------------------------------------------------------------------------
\* C4
\* ------------------------------------------------------------------------

\* C4 as claimed: every call within the budget that finds the plan exhausted
\* fails with PlanExhausted (HandCodedAgentFailed).
C4_ExhaustedAlwaysFails ==
    [][(calls < max_steps /\ subgoal_idx >= Len(subgoals)) => last'.kind = "Failed"]_vars

\* C4 as amended: a call within the budget that finds the plan exhausted fails
\* with PlanExhausted when the backlog is empty; when it is not, the call
\* removes and returns the last backlog entry instead.
C4_ExhaustedDrainsThenFails ==
    [][(calls < max_steps /\ subgoal_idx >= Len(subgoals)) =>
          IF action_backlog = << >>
          THEN last'.kind = "Failed" /\ action_backlog' = << >>
          ELSE /\ last'.kind = "command"
               /\ last'.cmd = Last(action_backlog)
               /\ action_backlog' = Front(action_backlog)
      ]_vars

C4_Witness ==
    /\ last.kind = "Failed"
    /\ calls <= max_steps
    /\ subgoal_idx = Len(subgoals)
    /\ unclosed = {}
    /\ opened_here # EmptyStr

\* ------------------------------------------------------------------------
\* C5
\* ------------------------------------------------------------------------

\* C5: on the five compiled plans a call of act returns a command or fails
\* with Timeout or PlanExhausted, and with nothing else.
C5_OnlyTimeoutOrExhausted ==
    task_type \in CompiledTaskTypes => last.kind \in {"none", "command", "Timeout", "Failed"}

\* ------------------------------------------------------------------------
\* C6
\* ------------------------------------------------------------------------

\* C6: in a call in which a find completes, the frontier and the backlog are
\* both empty when the next subgoal is derived in that call.
C6_FindDoneLeavesNothingPending ==
    "find_done" \in Range(last.branches) =>
        /\ last.snap.reached
        /\ last.snap.receptacles_to_check = << >>
        /\ last.snap.action_backlog = << >>

C6_Witness ==
    /\ "find_done" \in Range(last.branches)
    /\ last.snap.reached
    /\ unclosed # {}

\* ------------------------------------------------------------------------
\* C7
\* ------------------------------------------------------------------------

\* C7: with find(C) active and take(C) next, the agent at a receptacle R that
\* is not openable or already inspected, a call on a (non-introductory)
\* observation that shows an object of class C advances subgoal_idx by two,
\* pushes one shown object o of class C onto the inventory and returns
\* "take o from R".
C7_FindThenTakeInOneCall ==
    [][ ( /\ ReachesIngestion
          /\ subgoal_idx + 2 <= Len(subgoals)
          /\ subgoals[subgoal_idx + 1].action = "find"
          /\ subgoals[subgoal_idx + 2] = Subgoal("take", subgoals[subgoal_idx + 1].param)
          /\ curr_recep \in DictKeySet(receptacles)
          /\ (DictGet(receptacles, curr_recep) \notin OPENABLE_OBJECTS \/ checked_inside_curr_recep)
          /\ ~IsIntro(last'.obs)
          /\ \E o \in MentionsIn(last'.obs) : ClassOf(o, subgoals[subgoal_idx + 1].param) )
        =>
        ( /\ subgoal_idx' = subgoal_idx + 2
          /\ last'.kind = "command"
          /\ \E o \in MentionsIn(last'.obs) :
                /\ ClassOf(o, subgoals[subgoal_idx + 1].param)
                /\ last'.cmd = Cmd("take", <<o, curr_recep>>)
                /\ inventory' = Append(inventory, o) )
      ]_vars

C7_Witness ==
    /\ last.obs = ObsApple
    /\ last.kind = "command"
    /\ last.cmd = Cmd("take", <<Apple3, Countertop1>>)
    /\ subgoal_idx = 2
    /\ inventory = <<Apple3>>
    /\ receptacles = IntroCensus

\* ------------------------------------------------------------------------
\* C8
\* ------------------------------------------------------------------------

\* C8 as claimed: after a call on a non-introductory observation,
\* visible_objects maps the mentions of the observation that are not known
\* receptacles to their classes; after "You see apple_3 on countertop_1." it
\* is {apple_3: apple}.
C8_VisibleExcludesReceptacles ==
    [][(ReachesIngestion /\ ~IsIntro(last'.obs)) =>
          /\ DictKeySet(visible_objects') = MentionsIn(last'.obs) \ DictKeySet(receptacles')
          /\ \A i \in 1..Len(visible_objects') : ClassOf(visible_objects'[i].k, visible_objects'[i].v)
          /\ (last'.obs = ObsApple /\ receptacles' = IntroCensus) =>
                visible_objects' = << [k |-> Apple3, v |-> Word("apple")] >>
      ]_vars

\* C8 as amended: after a call within the budget, with the plan not
\* exhausted, on a non-introductory observation, visible_objects maps exactly
\* the tagged tokens of that observation, trailing punctuation stripped and
\* receptacle mentions included, to their classes; after
\* "You see apple_3 on countertop_1." it is {apple_3: apple, countertop_1: countertop}.
C8_VisibleIsAllTaggedTokens ==
    [][(ReachesIngestion /\ ~IsIntro(last'.obs)) =>
          /\ DictKeySet(visible_objects') = MentionsIn(last'.obs)
          /\ Cardinality(DictKeySet(visible_objects')) = Len(visible_objects')
          /\ \A i \in 1..Len(visible_objects') : ClassOf(visible_objects'[i].k, visible_objects'[i].v)
          /\ last'.obs = ObsApple =>
                visible_objects' = << [k |-> Apple3, v |-> Word("apple")],
                                      [k |-> Countertop1, v |-> Word("countertop")] >>
      ]_vars

C8_Witness ==
    /\ last.obs = ObsApple
    /\ last.kind = "command"
    /\ receptacles = IntroCensus
    /\ DictHas(visible_objects, Countertop1)
    /\ DictHas(visible_objects, Apple3)

\* ------------------------------------------------------------------------
\* C9
\* ------------------------------------------------------------------------

\* C9: once receptacles has been populated from an introductory observation,
\* no later call of act changes it.
C9_ReceptaclesPopulatedOnce ==
    [][receptacles # << >> => receptacles' = receptacles]_vars

\* ------------------------------------------------------------------------
\* C10
\* ------------------------------------------------------------------------

\* C10: every receptacle mention stored in obj_cls_to_receptacle_map and every
\* element of receptacles_to_check is a key of receptacles.
C10_MemoryNamesKnownReceptacles ==
    /\ \A c \in DOMAIN obj_cls_to_receptacle_map :
          obj_cls_to_receptacle_map[c] \in DictKeySet(receptacles)
    /\ \A i \in 1..Len(receptacles_to_check) :
          receptacles_to_check[i] \in DictKeySet(receptacles)

\* ------------------------------------------------------------------------
\* C11
\* ------------------------------------------------------------------------

\* C11: on the five compiled plans, whenever the put, heat, cool, clean, slice
\* or use block runs up to its inventory access, the inventory is not empty;
\* and the inventory only ever changes by a take appending the taken mention
\* or a put removing the last one.
C11_InventoryHeldWhenUsed ==
    [][ (task_type \in CompiledTaskTypes) =>
          /\ ( /\ last'.kind \in {"command", "IndexError"}
               /\ last'.branches # << >>
               /\ Last(last'.branches) \in {"put", "heat", "cool", "clean", "slice", "use"} )
             => inventory # << >>
          /\ inventory' # inventory =>
                \/ /\ last'.cmd.verb = "take"
                   /\ inventory' = Append(inventory, last'.cmd.args[1])
                \/ /\ last'.cmd.verb = "put"
                   /\ inventory # << >>
                   /\ last'.cmd.args[1] = Last(inventory)
                   /\ inventory' = Front(inventory)
      ]_vars

C11_Witness ==
    /\ task_type = TagPickCoolThenPlaceInRecep
    /\ last.kind = "command"
    /\ last.cmd.verb = "put"
    /\ inventory = << >>
    /\ subgoal_idx = Len(subgoals)

\* ------------------------------------------------------------------------
\* C12
\* ------------------------------------------------------------------------

\* C12: the plan compiled for task type "pick_and_place_simple" is exactly
\* [find(o), take(o), find(p), put(p)] for the task's object_target o and
\* parent_target p.
C12_PickAndPlacePlan ==
    task_type = TagPickAndPlaceSimple =>
        /\ policy_class # NoPolicy
        /\ subgoals = << [action |-> "find", param |-> task_params.object_target],
                         [action |-> "take", param |-> task_params.object_target],
                         [action |-> "find", param |-> task_params.parent_target],
                         [action |-> "put",  param |-> task_params.parent_target] >>

C12_Witness ==
    /\ task_type = TagPickAndPlaceSimple
    /\ task_params.object_target = Word("apple")
    /\ task_params.parent_target = Word("fridge")
    /\ subgoals[4] = [action |-> "put", param |-> Word("fridge")]
    /\ subgoal_idx = 4

\* ------------------------------------------------------------------------
\* C13
\* ------------------------------------------------------------------------

\* the appliance class and the verb of the three appliance task types
ApplianceOf(tag) ==
    CASE tag = TagPickHeatThenPlaceInRecep -> [cls |-> Word("microwave"), verb |-> "heat"]
      [] tag = TagPickCoolThenPlaceInRecep -> [cls |-> Word("fridge"), verb |-> "cool"]
      [] tag = TagPickCleanThenPlaceInRecep -> [cls |-> Word("sink"), verb |-> "clean"]

\* C13: the heat, cool and clean task types compile to
\* [find(o), take(o), goto(A), V(o), find(p), put(p)] with (A, V) = (microwave,
\* heat), (fridge, cool), (sink, clean); look_at_obj_in_light compiles to
\* [find(o), take(o), find(t), use(t)]; and in every compiled plan take occurs
\* exactly once, for o, before every put, heat, cool, clean and use.
C13_ApplianceAndLightPlans ==
    /\ task_type \in {TagPickHeatThenPlaceInRecep, TagPickCoolThenPlaceInRecep,
                      TagPickCleanThenPlaceInRecep} =>
          subgoals = << [action |-> "find", param |-> task_params.object_target],
                        [action |-> "take", param |-> task_params.object_target],
                        [action |-> "goto", param |-> ApplianceOf(task_type).cls],
                        [action |-> ApplianceOf(task_type).verb, param |-> task_params.object_target],
                        [action |-> "find", param |-> task_params.parent_target],
                        [action |-> "put",  param |-> task_params.parent_target] >>
    /\ task_type = TagLookAtObjInLight =>
          subgoals = << [action |-> "find", param |-> task_params.object_target],
                        [action |-> "take", param |-> task_params.object_target],
                        [action |-> "find", param |-> task_params.toggle_target],
                        [action |-> "use",  param |-> task_params.toggle_target] >>
    /\ task_type \in CompiledTaskTypes =>
          /\ Cardinality({i \in 1..Len(subgoals) : subgoals[i].action = "take"}) = 1
          /\ \A i \in 1..Len(subgoals) :
                subgoals[i].action \in {"put", "heat", "cool", "clean", "use"} =>
                    \E j \in 1..(i - 1) :
                        subgoals[j] = [action |-> "take", param |-> task_params.object_target]

C13_Witness ==
    /\ task_type = TagPickCoolThenPlaceInRecep
    /\ last.kind = "command"
    /\ last.cmd.verb = "cool"
    /\ last.cmd.args[2] = Tagged("fridge", "1")
    /\ subgoal_idx = 4

\* ------------------------------------------------------------------------
\* C14
\* ------------------------------------------------------------------------

\* C14: a task type outside the five compiled ones resolves to no policy
\* class: get_task_policy raises for it.
C14_OnlyFiveTaskTypesResolve ==
    (task_type # EmptyStr /\ task_type \notin CompiledTaskTypes) => policy_class = NoPolicy

\* ------------------------------------------------------------------------
\* C15
\* ------------------------------------------------------------------------

\* C15 as claimed: a compiled plan begins with look, and the first call, on
\* the introductory observation, fills the census, advances past look and
\* does not yet run the first step of the first find.
C15_PlanBeginsWithLook ==
    [][ ( /\ task_type \in CompiledTaskTypes
          /\ calls = 0
          /\ max_steps >= 1
          /\ IsIntro(last'.obs) )
        =>
        ( /\ subgoals[1].action = "look"
          /\ DictKeySet(receptacles') = MentionsIn(last'.obs)
          /\ subgoal_idx' = 1
          /\ last'.cmd.verb # "go to"
          /\ curr_recep' = EmptyStr )
      ]_vars

\* C15 as amended: no compiled plan contains a look subgoal, each begins with
\* find(object_target); the first call, on the introductory observation,
\* fills the census and in the same call runs the first step of that find: it
\* leaves subgoal_idx at 0 and, the census not being empty, returns "go to"
\* for a receptacle of the census, which becomes the current one.
C15_FirstCallAlreadySearches ==
    [][ ( /\ task_type \in CompiledTaskTypes
          /\ calls = 0
          /\ max_steps >= 1
          /\ IsIntro(last'.obs) )
        =>
        ( /\ \A i \in 1..Len(subgoals) : subgoals[i].action # "look"
          /\ subgoals[1] = [action |-> "find", param |-> task_params.object_target]
          /\ DictKeySet(receptacles') = MentionsIn(last'.obs)
          /\ subgoal_idx' = 0
          /\ receptacles' # << >> =>
                /\ last'.kind = "command"
                /\ last'.cmd.verb = "go to"
                /\ last'.cmd.args[1] \in DictKeySet(receptacles')
                /\ curr_recep' = last'.cmd.args[1] )
      ]_vars

C15_Witness ==
    /\ task_type = TagPickHeatThenPlaceInRecep
    /\ calls = 1
    /\ last.obs = ObsIntro
    /\ last.cmd = Cmd("go to", <<Tagged("sink", "1")>>)
    /\ receptacles = IntroCensus
    /\ subgoal_idx = 0

\* ------------------------------------------------------------------------
\* C16
\* ------------------------------------------------------------------------

\* the mentions of census, in census order, whose class is in the set classes
CensusOfClasses(census, classes) ==
    LET In(e) == e.v \in classes
        sel == SelectSeq(census, In)
    IN  [i \in 1..Len(sel) |-> sel[i].k]

\* where the heuristic looks for class C: the receptacles of class C if C is a
\* receptacle class, else those of a class known to contain C; all of them if
\* there is none
HeuristicCandidates(census, C) ==
    LET first == IF C \in RECEPTACLES
                 THEN CensusOfClasses(census, {C})
                 ELSE CensusOfClasses(census, {r \in RECEPTACLES : C \in VAL_RECEPTACLE_OBJECTS[r]})
    IN  IF first = << >> THEN [i \in 1..Len(census) |-> census[i].k] ELSE first

\* C16: a call on an incomplete find(C) with no location remembered for C and
\* an empty frontier fills the frontier with the heuristic candidates; a
\* "go to" of that call names the last of them and leaves the others on the
\* frontier.
C16_HeuristicFrontier ==
    [][ ( /\ ReachesIngestion
          /\ subgoals[subgoal_idx + 1].action = "find"
          /\ receptacles_to_check = << >>
          /\ subgoals[subgoal_idx + 1].param \notin DOMAIN obj_cls_to_receptacle_map'
          /\ subgoals[subgoal_idx + 1].param \in OBJECTS
          /\ \A i \in 1..Len(visible_objects') :
                visible_objects'[i].v # subgoals[subgoal_idx + 1].param )
        =>
        LET cand == HeuristicCandidates(receptacles', subgoals[subgoal_idx + 1].param)
        IN  IF last'.kind = "command" /\ last'.cmd.verb = "go to"
            THEN /\ last'.cmd.args[1] = cand[Len(cand)]
                 /\ receptacles_to_check' = SubSeq(cand, 1, Len(cand) - 1)
            ELSE receptacles_to_check' = cand
      ]_vars

C16_Witness ==
    /\ subgoal_idx = 0
    /\ Len(subgoals) >= 1
    /\ subgoals[1] = Subgoal("find", Word("mug"))
    /\ last.obs = ObsIntro2
    /\ last.cmd = Cmd("go to", <<Tagged("cabinet", "2")>>)
    /\ receptacles_to_check = <<Tagged("cabinet", "1")>>

\* ------------------------------------------------------------------------
\* C17
\* ------------------------------------------------------------------------

\* C17: a call on a goto(C) subgoal, the census holding a receptacle of class
\* C, has one outcome only: it returns "go to r" for the first receptacle r of
\* class C in census order, makes r the current receptacle, advances
\* subgoal_idx by one and leaves the frontier and the backlog alone.
C17_GotoPicksFirstOfClass ==
    [][ ( /\ ReachesIngestion
          /\ subgoals[subgoal_idx + 1].action = "goto"
          /\ \E i \in 1..Len(receptacles') : receptacles'[i].v = subgoals[subgoal_idx + 1].param )
        =>
        LET C == subgoals[subgoal_idx + 1].param
            n == CHOOSE i \in 1..Len(receptacles') :
                    /\ receptacles'[i].v = C
                    /\ \A j \in 1..(i - 1) : receptacles'[j].v # C
        IN  /\ last'.kind = "command"
            /\ last'.cmd = Cmd("go to", <<receptacles'[n].k>>)
            /\ curr_recep' = receptacles'[n].k
            /\ subgoal_idx' = subgoal_idx + 1
            /\ receptacles_to_check' = receptacles_to_check
            /\ action_backlog' = action_backlog
      ]_vars

C17_Witness ==
    /\ task_type = TagPickHeatThenPlaceInRecep
    /\ subgoal_idx = 3
    /\ last.cmd = Cmd("go to", <<Tagged("microwave", "1")>>)
    /\ DictHas(receptacles, Tagged("microwave", "2"))
    /\ curr_recep = Tagged("microwave", "1")

\* ------------------------------------------------------------------------
\* C18
\* ------------------------------------------------------------------------

\* C18: a call that does not fail returns a command, whose receptacle operand
\* is a non-empty key of receptacles and whose object operand is visible or
\* held.
C18_CommandsAreWellFormed ==
    [][ last'.kind \notin {"Timeout", "Failed", "IndexError", "KeyError"} =>
          /\ last'.kind = "command"
          /\ last'.cmd.verb \in {"go to", "open", "close"} =>
                /\ last'.cmd.args[1] # EmptyStr
                /\ last'.cmd.args[1] \in DictKeySet(receptacles')
          /\ last'.cmd.verb \in {"take", "put", "heat", "cool", "clean"} =>
                /\ last'.cmd.args[2] # EmptyStr
                /\ last'.cmd.args[2] \in DictKeySet(receptacles')
                /\ last'.cmd.args[1] \in
                      DictKeySet(visible_objects') \cup Range(inventory) \cup Range(inventory')
          /\ last'.cmd.verb \in {"slice", "use"} =>
                \A i \in 1..Len(last'.cmd.args) :
                    last'.cmd.args[i] \in
                        DictKeySet(visible_objects') \cup Range(inventory) \cup Range(inventory')
      ]_vars

\* ------------------------------------------------------------------------
\* C20
\* ------------------------------------------------------------------------

\* C20: a call within the budget that finds the plan exhausted removes and
\* returns the last backlog entry if there is one, and otherwise fails with
\* PlanExhausted; in both cases nothing else changes but steps.
C20_ExhaustedDrainThenFailChangesNothingElse ==
    [][ (calls < max_steps /\ subgoal_idx >= Len(subgoals)) =>
          /\ steps' = steps + 1
          /\ UNCHANGED << subgoals, max_steps, receptacles, visible_objects,
                          obj_cls_to_receptacle_map, subgoal_idx, curr_recep,
                          checked_inside_curr_recep, receptacles_to_check, inventory >>
          /\ IF Len(action_backlog) > 0
             THEN /\ last'.kind = "command"
                  /\ last'.cmd = action_backlog[Len(action_backlog)]
                  /\ action_backlog' = SubSeq(action_backlog, 1, Len(action_backlog) - 1)
             ELSE /\ last'.kind = "Failed"
                  /\ UNCHANGED action_backlog
      ]_vars

C20_Witness ==
    /\ subgoal_idx >= Len(subgoals)
    /\ calls <= max_steps
    /\ last.kind = "command"
    /\ last.cmd.verb = "close"
    /\ last.branches = <<"exhausted", "drain">>
    /\ action_backlog = << >>

\* ------------------------------------------------------------------------
\* C19
\* ------------------------------------------------------------------------

\* the returned score is the number 1
ScoreIsOne(st) == st.score.type = "int" /\ st.score.val = 1

\* C19: the state a step returns has score 1 exactly when the game is won and
\* done exactly when the game is won or lost, and after the walkthrough has
\* been stepped from a reset it has done = true and score = 1.
C19_WalkthroughWinsWithScoreOne ==
    state.has_score =>
        /\ ScoreIsOne(state) <=> check_goal(game_progression)
        /\ state.done <=> (check_goal(game_progression) \/ state.lost)
        /\ env_trace = Walkthrough => (state.done /\ ScoreIsOne(state))

\* ------------------------------------------------------------------------
\* C21
\* ------------------------------------------------------------------------

\* C21: a call made once the budget is used up fails with Timeout, whatever
\* the plan and the backlog are, and changes nothing but steps; and a call
\* that follows a Timeout fails with Timeout.
C21_TimeoutComesFirst ==
    [][ /\ (steps >= max_steps) =>
              /\ last'.kind = "Timeout"
              /\ steps' = steps + 1
              /\ UNCHANGED << subgoals, max_steps, receptacles, visible_objects,
                              obj_cls_to_receptacle_map, subgoal_idx, curr_recep,
                              checked_inside_curr_recep, receptacles_to_check, inventory,
                              action_backlog >>
        /\ (last.kind = "Timeout") => last'.kind = "Timeout"
      ]_vars

C21_Witness ==
    /\ last.kind = "Timeout"
    /\ steps >= max_steps + 2
    /\ subgoal_idx >= Len(subgoals)
    /\ action_backlog # << >>

\* ------------------------------------------------------------------------
\* C22
\* ------------------------------------------------------------------------

\* the coming call finds an incomplete find(C): within the budget, the active
\* subgoal is find(C) and the observation ingested shows no object of class C
IncompleteFind ==
    /\ ReachesIngestion
    /\ subgoals[subgoal_idx + 1].action = "find"
    /\ \A i \in 1..Len(visible_objects') :
          visible_objects'[i].v # subgoals[subgoal_idx + 1].param

\* C22: a call on an incomplete find(C) with a location remembered for C
\* makes that receptacle the whole frontier, whatever the frontier held and
\* whatever the priors say: a "go to" of that call names it and leaves the
\* frontier empty, an "open" or a drained command leaves it as the frontier.
C22_RememberedLocationFirst ==
    [][ ( /\ IncompleteFind
          /\ subgoals[subgoal_idx + 1].param \in DOMAIN obj_cls_to_receptacle_map )
        =>
        LET r == obj_cls_to_receptacle_map[subgoals[subgoal_idx + 1].param]
        IN  /\ obj_cls_to_receptacle_map'[subgoals[subgoal_idx + 1].param] = r
            /\ (last'.kind = "command" /\ last'.cmd.verb = "go to") =>
                  /\ last'.cmd.args = << r >>
                  /\ curr_recep' = r
                  /\ receptacles_to_check' = << >>
            /\ (last'.kind = "command" /\ last'.cmd.verb # "go to") =>
                  receptacles_to_check' = << r >>
      ]_vars

C22_Witness ==
    /\ subgoal_idx < Len(subgoals)
    /\ subgoals[subgoal_idx + 1] = Subgoal("find", Word("fridge"))
    /\ DictHas(receptacles, Tagged("fridge", "1"))
    /\ Word("fridge") \in DOMAIN obj_cls_to_receptacle_map
    /\ obj_cls_to_receptacle_map[Word("fridge")] = Tagged("sink", "1")
    /\ last.cmd = Cmd("go to", <<Tagged("sink", "1")>>)
    /\ last.branches = <<"find", "goto_next">>

\* ------------------------------------------------------------------------
\* C23
\* ------------------------------------------------------------------------

\* the classes of the mentions an observation shows
ClassesIn(obs) ==
    {c \in UNION {{SubSeq(m, 1, n - 1) : n \in 1..Len(m)} : m \in MentionsIn(obs)} :
        \E m \in MentionsIn(obs) : ClassOf(m, c)}

\* what C23 says of a call on the observation it ingests
MemoryWrittenFromObservation ==
    /\ ~IsIntro(last'.obs) =>
          /\ DOMAIN obj_cls_to_receptacle_map' =
                DOMAIN obj_cls_to_receptacle_map \cup ClassesIn(last'.obs)
          /\ \A c \in ClassesIn(last'.obs) : obj_cls_to_receptacle_map'[c] = curr_recep
          /\ \A c \in DOMAIN obj_cls_to_receptacle_map \ ClassesIn(last'.obs) :
                obj_cls_to_receptacle_map'[c] = obj_cls_to_receptacle_map[c]
    /\ IsIntro(last'.obs) =>
          /\ obj_cls_to_receptacle_map' = obj_cls_to_receptacle_map
          /\ visible_objects' = visible_objects

\* C23 as claimed: every call within the budget writes the current receptacle
\* into the memory for each class its non-introductory observation mentions
\* and leaves the other entries alone, a call on an introductory observation
\* leaves memory and visible objects alone, and no call removes a key.
C23_EveryCallWithinBudgetRemembers ==
    [][ /\ (calls < max_steps) => MemoryWrittenFromObservation
        /\ DOMAIN obj_cls_to_receptacle_map \subseteq DOMAIN obj_cls_to_receptacle_map'
      ]_vars

\* C23 as amended: the same of every call within the budget that finds the
\* plan not exhausted; a call that finds it exhausted, or is beyond the
\* budget, leaves the memory and the visible objects as they are.
C23_CallsOnActivePlanRemember ==
    [][ /\ ReachesIngestion => MemoryWrittenFromObservation
        /\ ~ReachesIngestion =>
              /\ obj_cls_to_receptacle_map' = obj_cls_to_receptacle_map
              /\ visible_objects' = visible_objects
        /\ DOMAIN obj_cls_to_receptacle_map \subseteq DOMAIN obj_cls_to_receptacle_map'
      ]_vars

C23_Witness ==
    /\ calls = 2
    /\ last.obs = ObsApple
    /\ last.kind = "command"
    /\ curr_recep = Tagged("sink", "1")
    /\ DOMAIN obj_cls_to_receptacle_map = {Word("apple"), Word("countertop")}
    /\ obj_cls_to_receptacle_map[Word("apple")] = Tagged("sink", "1")
    /\ obj_cls_to_receptacle_map[Word("countertop")] = Tagged("sink", "1")

\* ------------------------------------------------------------------------
\* C24
\* ------------------------------------------------------------------------

\* a find completed earlier in the call whose record is r
FindCompletedIn(r) == \E i \in 1..Len(r.branches) : r.branches[i] = "find_done"

\* what C24 says of a call that emits an opportunistic open, less the index
OpenOnlyUncheckedOpenable ==
    /\ last'.cmd.args = << curr_recep >>
    /\ curr_recep' = curr_recep
    /\ \E i \in 1..Len(receptacles') :
          /\ receptacles'[i].k = curr_recep
          /\ receptacles'[i].v \in OPENABLE_OBJECTS
    /\ ~checked_inside_curr_recep
    /\ checked_inside_curr_recep'
    /\ action_backlog' # << >>
    /\ Last(action_backlog') = Cmd("close", << curr_recep >>)

\* a visit ends only with a go-to made by find: nothing else marks the
\* current receptacle as unchecked again
OnlyFindGoToUnchecks ==
    (checked_inside_curr_recep /\ ~checked_inside_curr_recep') =>
        /\ last'.kind = "command"
        /\ last'.cmd.verb = "go to"
        /\ Last(last'.branches) = "goto_next"

\* C24 as claimed: find, take and put emit "open R" only for the current
\* receptacle R, of an openable class, not yet checked; the call marks R as
\* checked, defers "close R" and leaves subgoal_idx where it was; nothing but
\* a go-to of find unmarks R, so one visit sees at most one such open.
C24_OpenLeavesIndexAlone ==
    [][ /\ IsOpportunisticOpen(last') =>
              /\ OpenOnlyUncheckedOpenable
              /\ subgoal_idx' = subgoal_idx
        /\ OnlyFindGoToUnchecks
      ]_vars

\* C24 as amended: the same, the index being left alone by the open itself:
\* it is one further when a find completed earlier in the same call and the
\* take or put that became active opened, and unchanged otherwise.
C24_OpenDoesNotConsumeSubgoal ==
    [][ /\ IsOpportunisticOpen(last') =>
              /\ OpenOnlyUncheckedOpenable
              /\ subgoal_idx' = IF FindCompletedIn(last') THEN subgoal_idx + 1 ELSE subgoal_idx
              /\ subgoal_idx' < Len(subgoals)
              /\ subgoals[subgoal_idx' + 1].action \in {"find", "take", "put"}
        /\ OnlyFindGoToUnchecks
      ]_vars

C24_Witness ==
    /\ IsOpportunisticOpen(last)
    /\ FindCompletedIn(last)
    /\ last.cmd = Cmd("open", << Tagged("fridge", "1") >>)
    /\ subgoal_idx = 1
    /\ subgoals[2].action = "take"
    /\ checked_inside_curr_recep
    /\ action_backlog = << Cmd("close", << Tagged("fridge", "1") >>) >>

\* ------------------------------------------------------------------------
\* C25
\* ------------------------------------------------------------------------

\* whether the census gives receptacle r an openable class
ClassIsOpenable(census, r) ==
    \E i \in 1..Len(census) : census[i].k = r /\ census[i].v \in OPENABLE_OBJECTS

\* C25: a call on an incomplete find that returns a command while the backlog
\* is not empty returns the last entry of the backlog, removes it, and goes
\* nowhere; a "go to" of such a call finds the backlog empty, names the last
\* receptacle of the frontier, removes it from the frontier, makes it the
\* current receptacle and marks it as checked exactly when its class is not
\* openable.
C25_FindDrainsBeforeGoTo ==
    [][ IncompleteFind =>
        LET C == subgoals[subgoal_idx + 1].param
            t == last'.cmd.args[1]
        IN  /\ (last'.kind = "command" /\ action_backlog # << >>) =>
                  /\ last'.cmd.verb # "go to"
                  /\ last'.cmd = Last(action_backlog)
                  /\ action_backlog' = Front(action_backlog)
                  /\ curr_recep' = curr_recep
            /\ (last'.kind = "command" /\ last'.cmd.verb = "go to") =>
                  /\ action_backlog = << >>
                  /\ action_backlog' = << >>
                  /\ last'.cmd.args = << t >>
                  /\ Append(receptacles_to_check', t) =
                        IF C \in DOMAIN obj_cls_to_receptacle_map
                        THEN << obj_cls_to_receptacle_map[C] >>
                        ELSE IF receptacles_to_check # << >> THEN receptacles_to_check
                        ELSE HeuristicCandidates(receptacles', C)
                  /\ curr_recep' = t
                  /\ checked_inside_curr_recep' <=> ~ClassIsOpenable(receptacles', t)
      ]_vars

C25_Witness ==
    /\ last.kind = "command"
    /\ last.branches = <<"find", "drain">>
    /\ last.cmd.verb = "close"
    /\ receptacles_to_check # << >>
    /\ action_backlog = << >>
    /\ curr_recep = last.cmd.args[1]

\* ------------------------------------------------------------------------
\* C28
\* ------------------------------------------------------------------------

\* C28: whatever the plan, the backlog never holds more than one command, and
\* while it holds one the current receptacle is marked as checked.
C28_BacklogAtMostOneAndChecked ==
    /\ Len(action_backlog) <= 1
    /\ (action_backlog # << >>) => checked_inside_curr_recep

C28_Witness ==
    /\ Len(action_backlog) = 1
    /\ checked_inside_curr_recep
    /\ calls >= 3
    /\ last.kind = "command"
    /\ last.cmd.verb \in {"take", "put", "go to"}

\* ------------------------------------------------------------------------
\* C26
\* ------------------------------------------------------------------------

C29_CloseEmittedAtItsReceptacle ==
    [][ /\ (action_backlog # << >>) => curr_recep' = curr_recep
        /\ ( /\ last'.kind = "command"
             /\ Last(last'.branches) \in {"drain", "exhausted"}
             /\ last'.cmd.verb = "close" ) =>
              last'.cmd.args = << curr_recep' >>
      ]_vars

\* ------------------------------------------------------------------------
\* C30
\* ------------------------------------------------------------------------

\* C30: a call that returns a "go to", from find or from a goto subgoal,
\* for a receptacle of an openable class leaves that receptacle unchecked.
C30_ArrivalAtOpenableIsUnchecked ==
    [][ ( /\ last'.kind = "command"
          /\ last'.cmd.verb = "go to"
          /\ ClassIsOpenable(receptacles', curr_recep') ) =>
        ~checked_inside_curr_recep'
      ]_vars

\* ------------------------------------------------------------------------
\* C27
\* ------------------------------------------------------------------------

\* the transition is a step of the environment
IsEnvStep == Len(env_trace') = Len(env_trace) + 1

\* the command of that step, stripped, is one of the valid commands of the
\* state the step starts from
StepCommandIsValid ==
    \E i \in 1..Len(state.valid_commands) :
        state.valid_commands[i] = strip(Last(env_trace'))

\* C27: a step of PddlEnv on a command that is not a valid command of the
\* previous state leaves the game progression, the winning policy and the
\* move counter as they are and answers "Nothing happens." with no effects;
\* a step on a valid command applies its action to the progression and adds
\* exactly one to the move counter.
C27_InvalidCommandChangesNothing ==
    [][ (env_class = "PddlEnv" /\ IsEnvStep) =>
        /\ ~StepCommandIsValid =>
              /\ game_progression' = game_progression
              /\ current_winning_policy' = current_winning_policy
              /\ moves' = moves
              /\ last_action' = "None"
              /\ state'.effects = << >>
              /\ state'.feedback = NothingHappens
        /\ StepCommandIsValid =>
              /\ last_action' \in Range(valid_actions(game_progression))
              /\ game_progression' = update(game_progression, last_action')
              /\ moves' = moves + 1
      ]_vars

C27_Witness ==
    /\ env_class = "PddlEnv"
    /\ state.exists
    /\ state.feedback = NothingHappens
    /\ state.last_command = << "xyzzy" >>
    /\ moves = 1
    /\ Len(env_trace) = 2
    /\ game_progression # NewProgression

\* ------------------------------------------------------------------------
\* C31
\* ------------------------------------------------------------------------

\* the i-th receptacle of a round-robin over cand, last candidate first
RoundRobin(cand, i) == cand[Len(cand) - ((i - 1) % Len(cand))]

\* C31: a "go to" of an incomplete find(C), with no location remembered for C
\* and a census that is not empty, names the candidates of C in reverse census
\* order, over and over: the i-th go-to of the find names the i-th receptacle
\* of the round-robin, so that no candidate is named again before all were.
C31_FindVisitsRoundRobin ==
    [][ ( /\ IncompleteFind
          /\ subgoals[subgoal_idx + 1].param \notin DOMAIN obj_cls_to_receptacle_map'
          /\ receptacles' # << >>
          /\ last'.kind = "command"
          /\ last'.cmd.verb = "go to" )
        =>
        LET cand == HeuristicCandidates(receptacles', subgoals[subgoal_idx + 1].param)
        IN  \A i \in 1..Len(gone') : gone'[i] = RoundRobin(cand, i)
      ]_vars

====
